---- MODULE Spec2Model ----
(***************************************************************************)
(* OrthoBatch (Blender add-on): a model of main(), the per-asset pipeline  *)
(* (tryImport, prepare_shoot_clean_object, disposeobject) and of render(), *)
(* the tile dispatcher, translated from src/__init__.py.                   *)
(*                                                                         *)
(* Two specifications share the module:                                    *)
(*   Spec        one run of main() over a scene (objects, materials,       *)
(*               camera) with its configuration and environment inputs;    *)
(*   SpecRender  sequences of render() calls over the render settings.     *)
(*                                                                         *)
(* Floating-point quotients (the crop window fractions) are modelled as    *)
(* exact rationals <<numerator, denominator>>.                             *)
(***************************************************************************)
EXTENDS Integers, Sequences, FiniteSets, TLC

\* ------------------------------------------------------------------ bounds
\* Objects in the scene before the run.
NPre == 2
\* Materials in the file before the run (as many again can arrive by import).
NMat == 2
\* Model files a discovery can return.
MaxAssets == 2
\* Scene objects one import can create.
MaxImported == 2
\* Shoot directions enabled.
MaxDirs == 2
\* Material slots of one object.
MaxSlots == 2
\* Largest resolution component and largest cap of the render() model.
MaxRes == 5
MaxCap == 2

\* ------------------------------------------------------------- identifiers
None == 0

PreObjs == 1..NPre
\* The object prepareorthocam() creates.
CamId == NPre + 1
\* The objects the import of the asset at sorted position a creates.
ImportedIds(a, k) == {CamId + (a - 1) * MaxImported + j : j \in 1..k}
ObjIds == 1..(CamId + MaxAssets * MaxImported)

PreMats == 1..NMat
\* Materials created by the import being processed.
ImpMats == (NMat + 1)..(NMat + NMat)
Mats == PreMats \cup ImpMats

AllDirections == <<"X", "-X", "Y", "-Y", "Z", "-Z">>
ImportModes == {"folder", "currentfile", "currentfile_selected"}

VARIABLES
  \* --- the scene (bpy.context.scene, bpy.data)
  scene,            \* objects linked to the scene
  freed,            \* objects whose datablock was freed (a stale reference raises)
  hide_render,      \* object -> hide_render
  objtype,          \* object -> type
  active,           \* bpy.context.active_object, or None
  culling,          \* material -> use_backface_culling
  settings_prepared,\* prepareuniversalrendersettings() has run
  \* --- the configuration (bpy.context.window_manager.orthobatch_*)
  importMode, shootDirections, backCulling,
  \* --- main()'s locals and position
  pc, old_objs, old_objs_werehidden, camera, discovered,
  modelpaths, path_i, out_obj,
  importresults_fails, importresults_successes,
  local_objects_to_shoot, local_i,
  messages,         \* the message boxes shown, in order
  \* --- prepare_shoot_clean_object()'s locals
  materials,        \* object.data.materials of the object being shot
  old_culling, dir_i,
  \* --- history (not read by the program)
  pre_hide, pre_culling, call_culling, shot, disposed,
  imported,         \* what tryImport returned, path by path
  \* --- the render settings (bpy.context.scene.render) and render()'s calls
  resolution_x, resolution_y, use_border, use_crop_to_border,
  border_min_x, border_max_x, border_min_y, border_max_y, filepath,
  imgDivideMode, max_res, calls,
  \* --- shoottarget()'s configuration, inputs and locals
  scaleMode, imgSize, imgPadding, maxImgSize,
  dimensions,       \* target.dimensions, (x, y, z)
  direction,
  target_bb_viewsize, px_per_unit,
  shot_result,      \* history: how the last shoottarget call ended
  \* --- the file system, discovery and ModelPath
  os_sep,           \* os.sep of the platform
  sourcePath,       \* orthobatch_sourcePath
  files,            \* the model files under the source directory
  walk,             \* the files in the order os.walk listed them
  sortedpaths,      \* sorted(getAllModelPaths(...))
  export_args, export_result, \* the last imageExportPath call and its result
  window_args       \* the window settings main() sliced the sorted list under

sceneVars == <<scene, freed, hide_render, objtype, active, culling, settings_prepared>>
configVars == <<importMode, shootDirections, backCulling>>
mainVars == <<pc, old_objs, old_objs_werehidden, camera, discovered, modelpaths, path_i,
              out_obj, importresults_fails, importresults_successes,
              local_objects_to_shoot, local_i, messages>>
shootVars == <<materials, old_culling, dir_i>>
histVars == <<pre_hide, pre_culling, call_culling, shot, disposed, imported>>
renderVars == <<resolution_x, resolution_y, use_border, use_crop_to_border,
                border_min_x, border_max_x, border_min_y, border_max_y, filepath,
                imgDivideMode, max_res, calls>>
viewVars == <<scaleMode, imgSize, imgPadding, maxImgSize, dimensions, direction,
              target_bb_viewsize, px_per_unit, shot_result>>
pathVars == <<os_sep, sourcePath, files, walk, sortedpaths, export_args, export_result,
              window_args>>
vars == <<sceneVars, configVars, mainVars, shootVars, histVars, renderVars, viewVars,
          pathVars>>

\* ----------------------------------------------------------------- helpers
Min(a, b) == IF a <= b THEN a ELSE b

\* math.ceil(float(a) / float(b)) for a >= 0, b >= 1.
CeilDiv(a, b) == (a + b - 1) \div b

\* A set of numbers as the ascending list.
RECURSIVE SetToSeq(_)
SetToSeq(S) ==
  IF S = {} THEN <<>>
  ELSE LET m == CHOOSE x \in S : \A y \in S : x <= y
       IN <<m>> \o SetToSeq(S \ {m})

Range(s) == {s[i] : i \in DOMAIN s}

\* Sequences over S of length at most n.
SeqsUpTo(S, n) == UNION {[1..k -> S] : k \in 0..n}

\* -------------------------------------------------- render settings at rest
Zero == <<0, 1>>
One == <<1, 1>>

RenderIdle ==
  /\ resolution_x = 1 /\ resolution_y = 1
  /\ use_border = FALSE /\ use_crop_to_border = FALSE
  /\ border_min_x = Zero /\ border_max_x = One
  /\ border_min_y = Zero /\ border_max_y = One
  /\ filepath = <<"">>
  /\ imgDivideMode = "maxsize" /\ max_res = 1
  /\ calls = <<>>

\* shoottarget()'s configuration at its defaults (lines 78-138), nothing shot.
ViewIdle ==
  /\ scaleMode = "uniformscale" /\ imgSize = 256
  /\ imgPadding = Zero /\ maxImgSize = "4096"
  /\ dimensions = <<Zero, Zero, Zero>> /\ direction = "X"
  /\ target_bb_viewsize = <<Zero, Zero>> /\ px_per_unit = <<-1, 1>>
  /\ shot_result = "none"

\* No discovery made and no export path computed.
PathsIdle ==
  /\ os_sep = "/" /\ sourcePath = <<>>
  /\ files = {} /\ walk = <<>> /\ sortedpaths = <<>>
  /\ export_args = <<>> /\ export_result = <<>>
  /\ window_args = <<>>

\* ---------------------------------------------------------------- main()
Init ==
  /\ scene = PreObjs
  /\ freed = {}
  /\ \E h \in [PreObjs -> BOOLEAN] :
       hide_render = [o \in ObjIds |-> IF o \in PreObjs THEN h[o] ELSE FALSE]
  /\ \E t \in [PreObjs -> {"MESH", "EMPTY"}] :
       objtype = [o \in ObjIds |-> IF o \in PreObjs THEN t[o] ELSE "NONE"]
  /\ active \in PreObjs \cup {None}
  /\ \E c \in [PreMats -> BOOLEAN] :
       culling = [m \in Mats |-> IF m \in PreMats THEN c[m] ELSE FALSE]
  /\ settings_prepared = FALSE
  /\ importMode \in ImportModes
  /\ shootDirections \in {SubSeq(AllDirections, 1, n) : n \in 0..MaxDirs}
  /\ backCulling \in BOOLEAN
  /\ pc = "idle"
  /\ old_objs = <<>> /\ old_objs_werehidden = <<>>
  /\ camera = None
  /\ discovered = FALSE
  /\ modelpaths = <<>> /\ path_i = 1 /\ out_obj = None
  /\ importresults_fails = <<>> /\ importresults_successes = <<>>
  /\ local_objects_to_shoot = <<>> /\ local_i = 1
  /\ messages = <<>>
  /\ materials = <<>> /\ old_culling = <<>> /\ dir_i = 1
  /\ pre_hide = hide_render /\ pre_culling = culling /\ call_culling = culling
  /\ shot = {} /\ disposed = {} /\ imported = <<>>
  /\ RenderIdle
  /\ ViewIdle
  /\ PathsIdle

\* main(), lines 592-595: the assertion on the shoot directions.
DirectionsInvalidOff(dirs) == Len(dirs) < 0
DirectionsInvalid(dirs) == Len(dirs) < 1

AbortNoDirections ==
  /\ pc = "idle"
  /\ DirectionsInvalid(shootDirections)
  /\ messages' = Append(messages, "abort_directions")
  /\ pc' = "done"
  /\ UNCHANGED <<sceneVars, configVars, shootVars, histVars, renderVars, viewVars, pathVars,
                 old_objs, old_objs_werehidden, camera, discovered, modelpaths, path_i,
                 out_obj, importresults_fails, importresults_successes,
                 local_objects_to_shoot, local_i>>

\* main(), lines 601-614: snapshot and hide every scene object, create the
\* camera (prepareorthocam), set the render settings.
Prepare ==
  /\ pc = "idle"
  /\ ~DirectionsInvalid(shootDirections)
  /\ old_objs' = SetToSeq(scene)
  /\ old_objs_werehidden' = [i \in 1..Len(old_objs') |-> hide_render[old_objs'[i]]]
  /\ hide_render' = [o \in ObjIds |-> IF o \in scene THEN TRUE ELSE hide_render[o]]
  /\ camera' = CamId
  /\ scene' = scene \cup {CamId}
  /\ objtype' = [objtype EXCEPT ![CamId] = "CAMERA"]
  /\ settings_prepared' = TRUE
  /\ pc' = IF importMode = "folder" THEN "discover" ELSE "collect"
  /\ UNCHANGED <<freed, active, culling, configVars, shootVars, histVars, renderVars, viewVars, pathVars,
                 discovered, modelpaths, path_i, out_obj, importresults_fails,
                 importresults_successes, local_objects_to_shoot, local_i, messages>>

\* getAllModelPaths + sorted + the two slices, lines 624-645.  The assets are
\* named by their position in the sorted list.
\* Line 638 tests the property definition on the type, bpy.types.WindowManager.
\* orthobatch_overrideStartSearch, not the setting's value: it is always truthy.
OverrideStartSearchTest(overrideStartSearch) == TRUE

Window(n, overrideStartSearch, startSearch, limitSearch, maxFiles) ==
  LET all == [i \in 1..n |-> i]
      firstindex == IF OverrideStartSearchTest(overrideStartSearch)
                    THEN Min(startSearch, n) ELSE 0
      afterStart == IF OverrideStartSearchTest(overrideStartSearch)
                    THEN SubSeq(all, firstindex + 1, n) ELSE all
      count == Min(maxFiles, Len(afterStart))
  IN IF limitSearch THEN SubSeq(afterStart, 1, count) ELSE afterStart

\* main(), lines 632-634: no model file found; the return leaves the function
\* from inside the try block, and nothing after the try block runs.
AbortNoModels ==
  /\ pc = "discover"
  /\ discovered' = TRUE
  /\ messages' = Append(messages, "abort_nomodels")
  /\ pc' = "done"
  /\ UNCHANGED <<sceneVars, configVars, shootVars, renderVars, viewVars, pathVars,
                 pre_hide, imported, pre_culling, call_culling, shot, disposed,
                 old_objs, old_objs_werehidden, camera, modelpaths, path_i,
                 out_obj, importresults_fails, importresults_successes,
                 local_objects_to_shoot, local_i>>

\* main(), lines 624-650: at least one model file found.
Discover ==
  /\ pc = "discover"
  /\ \E n \in 1..MaxAssets, overrideStartSearch \in BOOLEAN, startSearch \in 0..MaxAssets,
        limitSearch \in BOOLEAN, maxFiles \in 1..MaxAssets :
       modelpaths' = Window(n, overrideStartSearch, startSearch, limitSearch, maxFiles)
  /\ discovered' = TRUE
  /\ importresults_fails' = <<>>
  /\ importresults_successes' = <<>>
  /\ path_i' = 1
  /\ pc' = "loop"
  /\ UNCHANGED <<sceneVars, configVars, shootVars, renderVars, viewVars, pathVars,
                 pre_hide, imported, pre_culling, call_culling, shot, disposed,
                 old_objs, old_objs_werehidden, camera, out_obj,
                 local_objects_to_shoot, local_i, messages>>

\* ModelPath.tryImport, lines 305-342.  created: the objects the importer added
\* to the scene; root: imported[0], whichever of them the set difference lists
\* first; raises: the importer (or the join) raised, and what it had created by
\* then stays in the scene.
TryImport(before_import_active, created, root, raises) ==
  IF raises
  THEN [obj |-> None, status |-> "FAILED: error", kept |-> created]
  ELSE IF Cardinality(created) < 1
  THEN [obj |-> None, status |-> "FAILED: No meshes found in imported object", kept |-> {}]
  ELSE IF Cardinality(created) = 1
  THEN [obj |-> root, status |-> "succeeded", kept |-> created]
  ELSE \* bpy.ops.object.join(): the others are merged into root and removed
       [obj |-> before_import_active, status |-> "succeeded", kept |-> {root}]

\* main(), line 661: after a failed import the loop goes on with the next path.
NextAfterFailBreak(i, n) == n + 1
NextAfterFail(i, n) == i + 1

\* main(), lines 651-667: one iteration's import and the record of its result.
ImportAsset ==
  /\ pc = "loop"
  /\ path_i <= Len(modelpaths)
  /\ \E k \in 0..MaxImported, raises \in BOOLEAN :
       /\ LET a == modelpaths[path_i]
              created == ImportedIds(a, k)
          IN \E root \in (IF k = 0 THEN {None} ELSE created) :
               LET out == TryImport(active, created, root, raises)
               IN /\ scene' = scene \cup out.kept
                  /\ imported' = Append(imported, out.obj)
                  /\ objtype' = [o \in ObjIds |->
                                   IF o \in out.kept THEN "MESH" ELSE objtype[o]]
                  /\ hide_render' = [o \in ObjIds |->
                                       IF o \in out.kept THEN FALSE ELSE hide_render[o]]
                  /\ IF out.obj = None
                     THEN /\ importresults_fails' =
                               Append(importresults_fails, <<a, out.status>>)
                          /\ path_i' = NextAfterFail(path_i, Len(modelpaths))
                          /\ pc' = "loop"
                          /\ UNCHANGED <<importresults_successes, out_obj>>
                     ELSE /\ importresults_successes' =
                               Append(importresults_successes, <<a, out.status>>)
                          /\ out_obj' = out.obj
                          /\ pc' = "prepare"
                          /\ UNCHANGED <<importresults_fails, path_i>>
  /\ UNCHANGED <<freed, active, culling, settings_prepared, configVars, shootVars,
                 pre_hide, pre_culling, call_culling, shot, disposed, renderVars, viewVars, pathVars, old_objs, old_objs_werehidden, camera,
                 discovered, modelpaths, local_objects_to_shoot, local_i, messages>>

\* prepare_shoot_clean_object, lines 555-559: the backup loop, slot by slot.
RECURSIVE BackupLoop(_, _, _, _, _)
BackupLoop(mats, i, old, cul, override) ==
  IF i > Len(mats) THEN [old_culling |-> old, culling |-> cul]
  ELSE LET m == mats[i]
       IN BackupLoop(mats, i + 1,
                     Append(old, IF m # None THEN cul[m] ELSE FALSE),
                     IF m # None THEN [cul EXCEPT ![m] = override] ELSE cul,
                     override)

\* prepare_shoot_clean_object, lines 583-585: the restore loop, slot by slot.
RECURSIVE RestoreLoop(_, _, _, _)
RestoreLoop(mats, i, old, cul) ==
  IF i > Len(mats) THEN cul
  ELSE LET m == mats[i]
       IN RestoreLoop(mats, i + 1, old,
                      IF m # None THEN [cul EXCEPT ![m] = old[i]] ELSE cul)

\* The material slots an object can have: an object of the file uses the file's
\* materials, an imported object the materials its import created (named in
\* the order of their first slot).
SlotChoices(obj) ==
  IF obj \in PreObjs
  THEN SeqsUpTo(PreMats \cup {None}, MaxSlots)
  ELSE {mats \in SeqsUpTo(ImpMats \cup {None}, MaxSlots) :
          \A i \in DOMAIN mats :
            mats[i] # None =>
              mats[i] <= NMat + 1 + Cardinality({mats[j] : j \in 1..(i - 1)} \ {None})}

\* prepare_shoot_clean_object, lines 555-561, for a mesh.  The slots of the
\* object (and the flags of an import's materials) are read here for the first
\* time, so they are drawn here.
PrepareObject ==
  /\ pc = "prepare"
  /\ objtype[out_obj] = "MESH"
  /\ \E mats \in SlotChoices(out_obj), c \in [ImpMats -> BOOLEAN] :
       /\ (out_obj \in PreObjs) => c = [m \in ImpMats |-> culling[m]]
       /\ (out_obj \notin PreObjs) => \A m \in ImpMats \ Range(mats) : c[m] = FALSE
       /\ LET cul == [m \in Mats |-> IF m \in ImpMats THEN c[m] ELSE culling[m]]
              b == BackupLoop(mats, 1, <<>>, cul, backCulling)
          IN /\ materials' = mats
             /\ call_culling' = cul
             /\ old_culling' = b.old_culling
             /\ culling' = b.culling
  /\ hide_render' = [hide_render EXCEPT ![out_obj] = FALSE]
  /\ dir_i' = 1
  /\ pc' = "shoot"
  /\ UNCHANGED <<scene, freed, objtype, active, settings_prepared, configVars, renderVars, viewVars, pathVars,
                 pre_hide, imported, pre_culling, shot, disposed,
                 old_objs, old_objs_werehidden, camera, discovered, modelpaths, path_i,
                 out_obj, importresults_fails, importresults_successes,
                 local_objects_to_shoot, local_i, messages>>

\* prepare_shoot_clean_object, lines 555-556, for an object that is no mesh:
\* object.data has no materials, the AttributeError reaches main()'s handler.
PrepareRaises ==
  /\ pc = "prepare"
  /\ objtype[out_obj] # "MESH"
  /\ pc' = "except"
  /\ UNCHANGED <<sceneVars, configVars, shootVars, histVars, renderVars, viewVars, pathVars,
                 old_objs, old_objs_werehidden, camera, discovered, modelpaths, path_i,
                 out_obj, importresults_fails, importresults_successes,
                 local_objects_to_shoot, local_i, messages>>

\* prepare_shoot_clean_object, lines 563-578: one direction is framed and
\* rendered (shoottarget returns).
ShootDirection ==
  /\ pc = "shoot"
  /\ dir_i <= Len(shootDirections)
  /\ dir_i' = dir_i + 1
  /\ UNCHANGED <<sceneVars, configVars, mainVars, materials, old_culling, histVars,
                 renderVars, viewVars, pathVars>>

\* prepare_shoot_clean_object, lines 563-578: shoottarget raises (a render call
\* or a framing step fails); nothing in prepare_shoot_clean_object catches it.
ShootRaises ==
  /\ pc = "shoot"
  /\ dir_i <= Len(shootDirections)
  /\ pc' = "except"
  /\ UNCHANGED <<sceneVars, configVars, shootVars, histVars, renderVars, viewVars, pathVars,
                 old_objs, old_objs_werehidden, camera, discovered, modelpaths, path_i,
                 out_obj, importresults_fails, importresults_successes,
                 local_objects_to_shoot, local_i, messages>>

\* prepare_shoot_clean_object's locals are gone once it has returned or raised.
LeaveShoot ==
  /\ materials' = <<>>
  /\ old_culling' = <<>>
  /\ dir_i' = 1
  /\ call_culling' = pre_culling

\* The asset (folder mode) or 0 (the current-file modes) being processed.
CurrentAsset == IF importMode = "folder" THEN modelpaths[path_i] ELSE 0

\* main(), lines 669-670 and 690-696: where main() goes on once
\* prepare_shoot_clean_object has returned: to the disposal of the asset in
\* folder mode, to the next object of the file otherwise.
AfterCleanSkipDispose(mode) == IF mode = "folder" THEN "loop" ELSE "local"
AfterClean(mode) == IF mode = "folder" THEN "dispose" ELSE "local"

\* prepare_shoot_clean_object, lines 580-585: hide the object again and
\* restore the culling flags; the function returns.
CleanObject ==
  /\ pc = "shoot"
  /\ dir_i > Len(shootDirections)
  /\ hide_render' = [hide_render EXCEPT ![out_obj] = TRUE]
  /\ culling' = RestoreLoop(materials, 1, old_culling, culling)
  /\ shot' = shot \cup {<<CurrentAsset, out_obj>>}
  /\ pc' = AfterClean(importMode)
  /\ local_i' = IF importMode = "folder" THEN local_i ELSE local_i + 1
  /\ UNCHANGED <<scene, freed, objtype, active, settings_prepared, configVars, shootVars,
                 renderVars, viewVars, pathVars, pre_hide, imported, pre_culling, call_culling, disposed,
                 old_objs, old_objs_werehidden, camera, discovered, modelpaths, path_i,
                 out_obj, importresults_fails, importresults_successes,
                 local_objects_to_shoot, messages>>

\* disposeobject, lines 399-403: the object leaves the scene.  An object no
\* other scene uses is freed with it; an object of the file that another scene
\* also uses survives as a datablock.
DisposeOutcomes(obj) == IF obj \in PreObjs THEN BOOLEAN ELSE {TRUE}

Dispose(obj, isFreed) ==
  /\ scene' = scene \ {obj}
  /\ freed' = IF isFreed THEN freed \cup {obj} ELSE freed
  /\ active' = IF active = obj THEN None ELSE active

\* main(), line 670: the object tryImport returned is disposed, and the loop
\* goes on.  The materials of a disposed import go with it.
DisposeAsset ==
  /\ pc = "dispose"
  /\ \E isFreed \in DisposeOutcomes(out_obj) : Dispose(out_obj, isFreed)
  /\ culling' = IF out_obj \in PreObjs THEN culling
                ELSE [m \in Mats |-> IF m \in ImpMats THEN FALSE ELSE culling[m]]
  /\ disposed' = disposed \cup {<<modelpaths[path_i], out_obj>>}
  /\ path_i' = path_i + 1
  /\ pc' = "loop"
  /\ LeaveShoot
  /\ UNCHANGED <<hide_render, objtype, settings_prepared, configVars,
                 renderVars, viewVars, pathVars, pre_hide, imported, pre_culling, shot,
                 old_objs, old_objs_werehidden, camera, discovered, modelpaths,
                 out_obj, importresults_fails, importresults_successes,
                 local_objects_to_shoot, local_i, messages>>

\* main(), lines 672-681: the loop is over, the aggregated report is shown.
Report ==
  /\ pc = "loop"
  /\ path_i > Len(modelpaths)
  /\ messages' = Append(messages, "report")
  /\ pc' = "restore"
  /\ UNCHANGED <<sceneVars, configVars, shootVars, histVars, renderVars, viewVars, pathVars,
                 old_objs, old_objs_werehidden, camera, discovered, modelpaths, path_i,
                 out_obj, importresults_fails, importresults_successes,
                 local_objects_to_shoot, local_i>>

\* filter_meshes_from_objlist, lines 709-716.
filter_meshes_from_objlist(objlist) == SelectSeq(objlist, LAMBDA o : objtype[o] = "MESH")

\* main(), lines 683-687: the objects of the file to shoot; which objects are
\* selectable, or selected, is the user's.
CollectLocal ==
  /\ pc = "collect"
  /\ \E objs \in SUBSET scene :
       local_objects_to_shoot' = filter_meshes_from_objlist(SetToSeq(objs))
  /\ local_i' = 1
  /\ pc' = "local"
  /\ UNCHANGED <<sceneVars, configVars, shootVars, histVars, renderVars, viewVars, pathVars,
                 old_objs, old_objs_werehidden, camera, discovered, modelpaths, path_i,
                 out_obj, importresults_fails, importresults_successes, messages>>

\* main(), lines 690-696: the next object of the file is shot in place.
LocalNext ==
  /\ pc = "local"
  /\ local_i <= Len(local_objects_to_shoot)
  /\ out_obj' = local_objects_to_shoot[local_i]
  /\ pc' = "prepare"
  /\ LeaveShoot
  /\ UNCHANGED <<sceneVars, configVars, pre_hide, imported, pre_culling, shot, disposed, renderVars, viewVars, pathVars,
                 old_objs, old_objs_werehidden, camera, discovered, modelpaths, path_i,
                 importresults_fails, importresults_successes,
                 local_objects_to_shoot, local_i, messages>>

\* main(), line 690: the loop over the file's objects is over.
LocalEnd ==
  /\ pc = "local"
  /\ local_i > Len(local_objects_to_shoot)
  /\ pc' = "restore"
  /\ LeaveShoot
  /\ UNCHANGED <<sceneVars, configVars, pre_hide, imported, pre_culling, shot, disposed, renderVars, viewVars, pathVars,
                 old_objs, old_objs_werehidden, camera, discovered, modelpaths, path_i,
                 out_obj, importresults_fails, importresults_successes,
                 local_objects_to_shoot, local_i, messages>>

\* main(), lines 698-699: the handler of the try block.
Except ==
  /\ pc = "except"
  /\ messages' = Append(messages, "error")
  /\ pc' = "restore"
  /\ LeaveShoot
  /\ UNCHANGED <<sceneVars, configVars, pre_hide, imported, pre_culling, shot, disposed, renderVars, viewVars, pathVars,
                 old_objs, old_objs_werehidden, camera, discovered, modelpaths, path_i,
                 out_obj, importresults_fails, importresults_successes,
                 local_objects_to_shoot, local_i>>

\* main(), lines 701-703: the restore loop.  Writing hide_render of an object
\* whose datablock was freed raises ReferenceError: the loop restores the
\* objects before it and stops there.
RestoredCount(objs) ==
  IF \E i \in 1..Len(objs) : objs[i] \in freed
  THEN (CHOOSE i \in 1..Len(objs) :
          objs[i] \in freed /\ \A j \in 1..(i - 1) : objs[j] \notin freed) - 1
  ELSE Len(objs)

RestoreHidden(objs, werehidden, n) ==
  [o \in ObjIds |->
     IF \E i \in 1..n : objs[i] = o
     THEN werehidden[CHOOSE i \in 1..n : objs[i] = o]
     ELSE hide_render[o]]

\* main(), lines 701-706: restore the visibility flags and dispose the camera;
\* main() returns, or ends with the ReferenceError of the restore loop.
Cleanup ==
  /\ pc = "restore"
  /\ LET n == RestoredCount(old_objs)
     IN /\ hide_render' = RestoreHidden(old_objs, old_objs_werehidden, n)
        /\ IF n = Len(old_objs)
           THEN /\ Dispose(camera, TRUE)
                /\ pc' = "done"
           ELSE /\ pc' = "raised"
                /\ UNCHANGED <<scene, freed, active>>
  /\ UNCHANGED <<objtype, culling, settings_prepared, configVars, shootVars, histVars,
                 renderVars, viewVars, pathVars, old_objs, old_objs_werehidden, camera, discovered,
                 modelpaths, path_i, out_obj, importresults_fails,
                 importresults_successes, local_objects_to_shoot, local_i, messages>>

Next ==
  \/ AbortNoDirections
  \/ Prepare
  \/ AbortNoModels
  \/ Discover
  \/ ImportAsset
  \/ PrepareObject
  \/ PrepareRaises
  \/ ShootDirection
  \/ ShootRaises
  \/ CleanObject
  \/ DisposeAsset
  \/ Report
  \/ CollectLocal
  \/ LocalNext
  \/ LocalEnd
  \/ Except
  \/ Cleanup

Spec == Init /\ [][Next]_vars

\* ---------------------------------------------------------------- render()
\* Rationals <<n, d>> with d >= 1 stand for the float quotients n / d.
RatEq(a, b) == a[1] * b[2] = b[1] * a[2]
RatLe(a, b) == a[1] * b[2] <= b[1] * a[2]
RatLt(a, b) == a[1] * b[2] < b[1] * a[2]

\* render(), lines 409-410: pieces_x, pieces_y.
PiecesFloor(res, cap) == res \div cap
Pieces(res, cap) == CeilDiv(res, cap)

\* render(), lines 430-433: the crop window of piece k of an axis, 'evensize'.
EvenBorderMin(pieces, k) == <<k, pieces>>
EvenBorderMaxToEnd(pieces, k) == <<pieces, pieces>>
EvenBorderMax(pieces, k) == <<k + 1, pieces>>

\* render(), lines 436-439: the crop window of piece k of an axis, 'maxsize'.
MaxSizeBorderMinEven(cap, k, res) == <<k, Pieces(res, cap)>>
MaxSizeBorderMin(cap, k, res) == <<cap * k, res>>
MaxSizeBorderMaxNoMin(cap, k, res) == <<cap * (k + 1), res>>
MaxSizeBorderMax(cap, k, res) == <<Min(cap * (k + 1), res), res>>

\* render(), lines 427-439: the crop window set for the tile (row, column);
\* a divide mode with no case leaves the window as it was.
TileBorder(mode, cap, row, column, w, h, prev) ==
  CASE mode = "evensize" ->
         [min_x |-> EvenBorderMin(Pieces(w, cap), row),
          max_x |-> EvenBorderMax(Pieces(w, cap), row),
          min_y |-> EvenBorderMin(Pieces(h, cap), column),
          max_y |-> EvenBorderMax(Pieces(h, cap), column)]
    [] mode = "maxsize" ->
         [min_x |-> MaxSizeBorderMin(cap, row, w),
          max_x |-> MaxSizeBorderMax(cap, row, w),
          min_y |-> MaxSizeBorderMin(cap, column, h),
          max_y |-> MaxSizeBorderMax(cap, column, h)]
    [] OTHER -> prev

\* str.format of a non-negative int: its decimal digits, one character each.
DigitChar == <<"0", "1", "2", "3", "4", "5", "6", "7", "8", "9">>
RECURSIVE FormatInt(_)
FormatInt(n) ==
  IF n < 10 THEN <<DigitChar[n + 1]>>
  ELSE FormatInt(n \div 10) \o <<DigitChar[(n % 10) + 1]>>

\* render(), line 424: basepath + "_{}_{}".format(row + 1, column + 1); a path
\* is the base path followed by the characters appended to it.
TilePathZeroBased(basepath, row, column) ==
  <<basepath, "_">> \o FormatInt(row) \o <<"_">> \o FormatInt(column)
TilePath(basepath, row, column) ==
  <<basepath, "_">> \o FormatInt(row + 1) \o <<"_">> \o FormatInt(column + 1)
\* render(), line 415: basepath as it is.
PlainPath(basepath) == <<basepath>>

\* What one bpy.ops.render.render call sees of the render settings.
RenderCall(basepath, path, border, crop, box, w, h) ==
  [basepath |-> basepath, filepath |-> path, use_border |-> border, use_crop_to_border |-> crop,
   min_x |-> box.min_x, max_x |-> box.max_x, min_y |-> box.min_y, max_y |-> box.max_y,
   resolution_x |-> w, resolution_y |-> h]

CurrentBox ==
  [min_x |-> border_min_x, max_x |-> border_max_x,
   min_y |-> border_min_y, max_y |-> border_max_y]

\* render(), lines 413-414: the single render disables the border.
SingleBorderKept(prev) == prev
SingleBorder(prev) == FALSE

\* render(), lines 421-448: the calls of the split branch, row by row (the
\* outer loop runs over pieces_x), each with the window set for it.
SplitCalls(basepath, mode, cap, w, h, prev) ==
  LET px == Pieces(w, cap)
      py == Pieces(h, cap)
  IN [n \in 1..(px * py) |->
        LET row == (n - 1) \div py
            column == (n - 1) % py
        IN RenderCall(basepath, TilePath(basepath, row, column), TRUE, TRUE,
                      TileBorder(mode, cap, row, column, w, h, prev), w, h)]

\* render(), lines 407-449, called with the resolution w x h set.
Render(basepath, w, h) ==
  LET prev == CurrentBox
  IN IF Pieces(w, max_res) = 1 /\ Pieces(h, max_res) = 1
     THEN /\ use_border' = SingleBorder(use_border)
          /\ use_crop_to_border' = SingleBorder(use_crop_to_border)
          /\ filepath' = PlainPath(basepath)
          /\ calls' = <<RenderCall(basepath, filepath', use_border', use_crop_to_border',
                                   prev, w, h)>>
          /\ UNCHANGED <<border_min_x, border_max_x, border_min_y, border_max_y>>
     ELSE /\ use_border' = TRUE
          /\ use_crop_to_border' = TRUE
          /\ calls' = SplitCalls(basepath, imgDivideMode, max_res, w, h, prev)
          /\ IF calls' = <<>>
             THEN UNCHANGED <<border_min_x, border_max_x, border_min_y,
                              border_max_y, filepath>>
             ELSE LET last == calls'[Len(calls')]
                  IN /\ border_min_x' = last.min_x
                     /\ border_max_x' = last.max_x
                     /\ border_min_y' = last.min_y
                     /\ border_max_y' = last.max_y
                     /\ filepath' = last.filepath

\* shoottarget, lines 534-542: the resolution of the shot is set and render()
\* is called; calls holds the render calls of this shot.
ShootTarget ==
  /\ pc = "render"
  /\ \E w \in 0..MaxRes, h \in 0..MaxRes, basepath \in {"front", "side"} :
       /\ resolution_x' = w
       /\ resolution_y' = h
       /\ Render(basepath, w, h)
  /\ UNCHANGED <<sceneVars, configVars, mainVars, shootVars, histVars,
                 imgDivideMode, max_res, viewVars, pathVars>>

\* A run's render settings: the divide mode and the cap are the run's
\* configuration, the rest is as Blender starts.
InitRender ==
  /\ scene = PreObjs /\ freed = {}
  /\ hide_render = [o \in ObjIds |-> FALSE]
  /\ objtype = [o \in ObjIds |-> IF o \in PreObjs THEN "MESH" ELSE "NONE"]
  /\ active = None
  /\ culling = [m \in Mats |-> FALSE]
  /\ settings_prepared = TRUE
  /\ importMode = "folder" /\ shootDirections = <<"X">> /\ backCulling = FALSE
  /\ pc = "render"
  /\ old_objs = <<>> /\ old_objs_werehidden = <<>>
  /\ camera = None /\ discovered = FALSE
  /\ modelpaths = <<>> /\ path_i = 1 /\ out_obj = None
  /\ importresults_fails = <<>> /\ importresults_successes = <<>>
  /\ local_objects_to_shoot = <<>> /\ local_i = 1
  /\ messages = <<>>
  /\ materials = <<>> /\ old_culling = <<>> /\ dir_i = 1
  /\ pre_hide = hide_render /\ pre_culling = culling /\ call_culling = culling
  /\ shot = {} /\ disposed = {} /\ imported = <<>>
  /\ resolution_x = 1 /\ resolution_y = 1
  /\ use_border = FALSE /\ use_crop_to_border = FALSE
  /\ border_min_x = Zero /\ border_max_x = One
  /\ border_min_y = Zero /\ border_max_y = One
  /\ filepath = <<"">>
  /\ imgDivideMode \in {"reduceres", "evensize", "maxsize"}
  /\ max_res \in 1..MaxCap
  /\ calls = <<>>
  /\ ViewIdle
  /\ PathsIdle

NextRender == ShootTarget

SpecRender == InitRender /\ [][NextRender]_vars

\* ----------------------------------------------------------- shoottarget()
\* Lengths and scales are floats in the code; here exact rationals <<n, d>>,
\* d >= 1.
RatAdd(a, b) == <<a[1] * b[2] + b[1] * a[2], a[2] * b[2]>>
RatMul(a, b) == <<a[1] * b[1], a[2] * b[2]>>
\* a / b for b > 0.
RatDiv(a, b) == <<a[1] * b[2], a[2] * b[1]>>
RatMax(a, b) == IF RatLe(a, b) THEN b ELSE a
\* math.ceil of a rational.
RatCeil(a) == -((-a[1]) \div a[2])
RatOfInt(n) == <<n, 1>>

\* The largest dimension of a target and the values a dimension takes.
MaxDim == 2
Dims == {RatOfInt(n) : n \in 0..MaxDim}
\* The paddings tried: none and half a unit (imgPadding is a float in [0, 10]).
Paddings == {Zero, <<1, 2>>}
\* The pixels-per-unit settings tried (imgSize is an int, 256 by default).
ImgSizes == {1, 3, 256}
ScaleModes == {"uniformscale", "samesize"}
DivideModes == {"reduceres", "evensize", "maxsize"}
\* The items of orthobatch_maxImgSize, lines 99-109.
MaxImgSizes == {"256", "512", "1024", "2048", "4096", "8192", "16384", "other"}

\* shoottarget, lines 475-498: the two dimensions orthogonal to the direction,
\* each with the padding added.
ViewSizeAlongAxis(dims, dir, padding) ==
  LET plain == CASE dir \in {"X", "-X"} -> <<dims[1], dims[3]>>
                 [] dir \in {"Y", "-Y"} -> <<dims[1], dims[3]>>
                 [] dir \in {"Z", "-Z"} -> <<dims[1], dims[2]>>
  IN <<RatAdd(plain[1], padding), RatAdd(plain[2], padding)>>
ViewSize(dims, dir, padding) ==
  LET plain == CASE dir \in {"X", "-X"} -> <<dims[2], dims[3]>>
                 [] dir \in {"Y", "-Y"} -> <<dims[1], dims[3]>>
                 [] dir \in {"Z", "-Z"} -> <<dims[1], dims[2]>>
  IN <<RatAdd(plain[1], padding), RatAdd(plain[2], padding)>>

\* shoottarget, lines 502-521: max_image_size; -1 when no case assigns it.
MaxImageSize(m) ==
  CASE m = "128" -> 128
    [] m = "256" -> 256
    [] m = "512" -> 512
    [] m = "1024" -> 1024
    [] m = "2048" -> 2048
    [] m = "4096" -> 4096
    [] m = "8192" -> 8192
    [] m = "16384" -> 16384
    [] OTHER -> -1
\* Line 521 reads the attribute 'other' of the enum's string value: an
\* AttributeError.
MaxImageSizeRaises(m) == m = "other"

\* shoottarget, line 528: the divide mode under which the scale is reduced.
ReduceAppliesAlways(divideMode) == TRUE
ReduceApplies(divideMode) == divideMode = "reduceres"

\* shoottarget, line 529: the configured scale would exceed the cap.
ExceedsCapFirstAxis(viewsize, px, cap) ==
  RatLt(RatOfInt(cap), RatMul(viewsize[1], px))
ExceedsCap(viewsize, px, cap) ==
  RatLt(RatOfInt(cap), RatMul(RatMax(viewsize[1], viewsize[2]), px))

\* shoottarget, lines 530 and 532: max_image_size / max(viewsize); the float
\* division raises ZeroDivisionError on a zero divisor.
FitScaleRaises(viewsize) == RatEq(RatMax(viewsize[1], viewsize[2]), Zero)
FitScale(viewsize, cap) == RatDiv(RatOfInt(cap), RatMax(viewsize[1], viewsize[2]))

\* shoottarget, lines 524-532: whether computing px_per_unit raises.
PxPerUnitRaises(mode, divideMode, size, cap, viewsize) ==
  CASE mode = "uniformscale" ->
         /\ ReduceApplies(divideMode)
         /\ ExceedsCap(viewsize, RatOfInt(size), cap)
         /\ FitScaleRaises(viewsize)
    [] mode = "samesize" -> FitScaleRaises(viewsize)
    [] OTHER -> FALSE

\* shoottarget, lines 524-532: px_per_unit.
PxPerUnit(mode, divideMode, size, cap, viewsize) ==
  CASE mode = "uniformscale" ->
         IF ReduceApplies(divideMode) /\ ExceedsCap(viewsize, RatOfInt(size), cap)
         THEN FitScale(viewsize, cap)
         ELSE RatOfInt(size)
    [] mode = "samesize" -> FitScale(viewsize, cap)
    [] OTHER -> <<-1, 1>>

\* shoottarget, lines 534-535: one component of the resolution.
Resolution(px, extent) == RatCeil(RatMul(px, extent))

\* shoottarget, lines 466-544: the view size, the cap, the scale and the
\* resolution of one shot, then render(); an exception leaves the render
\* settings as they were and ends the calls.
shoottarget ==
  /\ pc = "render"
  /\ \E dir \in Range(AllDirections) :
       LET viewsize == ViewSize(dimensions, dir, imgPadding)
           cap == MaxImageSize(maxImgSize)
       IN /\ direction' = dir
          /\ target_bb_viewsize' = viewsize
          /\ IF MaxImageSizeRaises(maxImgSize)
                \/ PxPerUnitRaises(scaleMode, imgDivideMode, imgSize, cap, viewsize)
             THEN /\ shot_result' = "raised"
                  /\ pc' = "except"
                  /\ px_per_unit' = <<-1, 1>>
                  /\ UNCHANGED <<resolution_x, resolution_y, use_border,
                                 use_crop_to_border, border_min_x, border_max_x,
                                 border_min_y, border_max_y, filepath, calls>>
             ELSE LET px == PxPerUnit(scaleMode, imgDivideMode, imgSize, cap, viewsize)
                      w == Resolution(px, viewsize[1])
                      h == Resolution(px, viewsize[2])
                  IN /\ px_per_unit' = px
                     /\ resolution_x' = w
                     /\ resolution_y' = h
                     /\ Render("front", w, h)
                     /\ shot_result' = "rendered"
                     /\ pc' = pc
  /\ UNCHANGED <<sceneVars, configVars, old_objs, old_objs_werehidden, camera,
                 discovered, modelpaths, path_i, out_obj, importresults_fails,
                 importresults_successes, local_objects_to_shoot, local_i, messages,
                 shootVars, histVars, imgDivideMode, max_res,
                 scaleMode, imgSize, imgPadding, maxImgSize, dimensions, pathVars>>

\* The shots of one target under one configuration; render() gets the cap the
\* configuration selects.
InitShoot ==
  /\ scene = PreObjs /\ freed = {}
  /\ hide_render = [o \in ObjIds |-> FALSE]
  /\ objtype = [o \in ObjIds |-> IF o \in PreObjs THEN "MESH" ELSE "NONE"]
  /\ active = None
  /\ culling = [m \in Mats |-> FALSE]
  /\ settings_prepared = TRUE
  /\ importMode = "folder" /\ shootDirections = <<"X">> /\ backCulling = FALSE
  /\ pc = "render"
  /\ old_objs = <<>> /\ old_objs_werehidden = <<>>
  /\ camera = None /\ discovered = FALSE
  /\ modelpaths = <<>> /\ path_i = 1 /\ out_obj = None
  /\ importresults_fails = <<>> /\ importresults_successes = <<>>
  /\ local_objects_to_shoot = <<>> /\ local_i = 1
  /\ messages = <<>>
  /\ materials = <<>> /\ old_culling = <<>> /\ dir_i = 1
  /\ pre_hide = hide_render /\ pre_culling = culling /\ call_culling = culling
  /\ shot = {} /\ disposed = {} /\ imported = <<>>
  /\ resolution_x = 1 /\ resolution_y = 1
  /\ use_border = FALSE /\ use_crop_to_border = FALSE
  /\ border_min_x = Zero /\ border_max_x = One
  /\ border_min_y = Zero /\ border_max_y = One
  /\ filepath = <<"">>
  /\ calls = <<>>
  /\ scaleMode \in ScaleModes
  /\ imgSize \in ImgSizes
  /\ imgPadding \in Paddings
  /\ maxImgSize \in MaxImgSizes
  /\ imgDivideMode \in DivideModes
  /\ max_res = MaxImageSize(maxImgSize)
  /\ dimensions \in Dims \X Dims \X Dims /\ direction = "X"
  /\ target_bb_viewsize = <<Zero, Zero>> /\ px_per_unit = <<-1, 1>>
  /\ shot_result = "none"
  /\ PathsIdle

NextShoot == shoottarget

SpecShoot == InitShoot /\ [][NextShoot]_vars

\* ------------------------------------------------- strings (Python's str)
\* A string is the sequence of its characters.
Max(a, b) == IF a >= b THEN a ELSE b

\* The characters used, in code point order; Ord(c) is the position of c.
Ascii ==
  <<"-", ".", "/", "0", "1", "2", "3", "4", "5", "6", "7", "8", "9", ":",
    "A", "B", "C", "D", "E", "F", "G", "H", "I", "J", "K", "L", "M", "N", "O",
    "P", "Q", "R", "S", "T", "U", "V", "W", "X", "Y", "Z", "\\", "_",
    "a", "b", "c", "d", "e", "f", "g", "h", "i", "j", "k", "l", "m", "n", "o",
    "p", "q", "r", "s", "t", "u", "v", "w", "x", "y", "z">>
Ord(c) == CHOOSE i \in DOMAIN Ascii : Ascii[i] = c
\* 'A' is 28 places before 'a' in Ascii.
LowerChar(c) == IF Ord("A") <= Ord(c) /\ Ord(c) <= Ord("Z") THEN Ascii[Ord(c) + 28] ELSE c
\* str.lower
Lower(s) == [i \in DOMAIN s |-> LowerChar(s[i])]

\* a < b on str: lexicographic by code point.
RECURSIVE StrLt(_, _)
StrLt(a, b) ==
  IF b = <<>> THEN FALSE
  ELSE IF a = <<>> THEN TRUE
  ELSE IF Head(a) = Head(b) THEN StrLt(Tail(a), Tail(b))
  ELSE Ord(Head(a)) < Ord(Head(b))

\* str.startswith, str.endswith
StartsWith(s, p) == Len(p) <= Len(s) /\ SubSeq(s, 1, Len(p)) = p
EndsWith(s, p) == Len(p) <= Len(s) /\ SubSeq(s, Len(s) - Len(p) + 1, Len(s)) = p

\* str.find: the lowest index (from 0) where p occurs in s, or -1.
Occurs(s, p, i) == i + Len(p) <= Len(s) /\ SubSeq(s, i + 1, i + Len(p)) = p
FindLast(s, p) ==
  IF \E i \in 0..Len(s) : Occurs(s, p, i)
  THEN CHOOSE i \in 0..Len(s) : Occurs(s, p, i) /\ \A j \in 0..Len(s) : Occurs(s, p, j) => j <= i
  ELSE -1
Find(s, p) ==
  IF \E i \in 0..Len(s) : Occurs(s, p, i)
  THEN CHOOSE i \in 0..Len(s) : Occurs(s, p, i) /\ \A j \in 0..Len(s) : Occurs(s, p, j) => i <= j
  ELSE -1
\* str.rfind of one character: the highest index (from 0), or -1.
RFind(s, c) == FindLast(s, <<c>>)

\* s[a:b]; a negative index counts from the end.
SliceIndex(s, i) == IF i < 0 THEN Max(Len(s) + i, 0) ELSE Min(i, Len(s))
Slice(s, a, b) == SubSeq(s, SliceIndex(s, a) + 1, SliceIndex(s, b))

\* str.strip(c) for one character c.
RECURSIVE LStrip(_, _)
LStrip(s, c) == IF s # <<>> /\ Head(s) = c THEN LStrip(Tail(s), c) ELSE s
RECURSIVE RStrip(_, _)
RStrip(s, c) ==
  IF s # <<>> /\ s[Len(s)] = c THEN RStrip(SubSeq(s, 1, Len(s) - 1), c) ELSE s
Strip(s, c) == RStrip(LStrip(s, c), c)

\* str.split(c) for one character c: the list of the parts.
RECURSIVE Split(_, _)
Split(s, c) ==
  IF s = <<>> THEN <<<<>>>>
  ELSE LET rest == Split(Tail(s), c)
       IN IF Head(s) = c THEN <<<<>>>> \o rest
          ELSE <<<<Head(s)>> \o rest[1]>> \o Tail(rest)

\* str.replace(c, d) for single characters.
Replace(s, c, d) == [i \in DOMAIN s |-> IF s[i] = c THEN d ELSE s[i]]

\* ------------------------------------------------------------ os.path.join
Windows == "\\"
Posix == "/"
Platforms == {Windows, Posix}

\* posixpath.join(a, b)
PosixJoin(a, b) ==
  IF StartsWith(b, <<"/">>) THEN b
  ELSE IF a = <<>> \/ EndsWith(a, <<"/">>) THEN a \o b
  ELSE a \o <<"/">> \o b

\* ntpath.join(a, b), for b relative, rooted or with a drive of its own.
HasDrive(s) == Len(s) >= 2 /\ s[2] = ":"
NtJoin(a, b) ==
  IF HasDrive(b) THEN b
  ELSE IF b # <<>> /\ b[1] \in {"\\", "/"}
  THEN (IF HasDrive(a) THEN SubSeq(a, 1, 2) ELSE <<>>) \o b
  ELSE IF a # <<>> /\ a[Len(a)] \notin {"\\", "/", ":"} THEN a \o <<"\\">> \o b
  ELSE a \o b

\* os.path.join of two and of three paths on the platform whose os.sep is sep.
Join(sep, a, b) == IF sep = Windows THEN NtJoin(a, b) ELSE PosixJoin(a, b)
Join3(sep, a, b, c) == Join(sep, Join(sep, a, b), c)

\* ---------------------------------------------- the files and os.walk
\* The model files tried: a few names, equal or not when case is ignored, in a
\* few directories below the source directory (given by their folder names).
FileNames == {<<"a", ".", "o", "b", "j">>, <<"A", ".", "o", "b", "j">>,
              <<"b", ".", "o", "b", "j">>, <<"c", ".", "O", "B", "J">>,
              <<"c", ".", "t", "x", "t">>}
Folders == {<<>>, <<<<"s">>>>, <<<<"t">>>>, <<<<"s">>, <<"u">>>>}
File(dirs, filename) == [dirs |-> dirs, filename |-> filename]
AllFiles == {File(d, f) : d \in Folders, f \in FileNames}
\* Files a source directory holds at most.
MaxFiles == 2

\* The source directory as configured, without or with the trailing separator.
SourcePaths(sep) ==
  IF sep = Windows
  THEN {<<"C", ":", "\\", "m">>, <<"C", ":", "\\", "m", "\\">>}
  ELSE {<<"/", "m">>, <<"/", "m", "/">>}
\* The export directory as configured.
ExportPaths(sep) ==
  IF sep = Windows
  THEN {<<"C", ":", "\\", "o">>, <<"C", ":", "\\", "o", "\\">>}
  ELSE {<<"/", "o">>, <<"/", "o", "/">>}

\* The relative path of a file, ignoring case: a case-insensitive file system
\* holds no two files that agree on it.
LowerAll(dirs) == [i \in DOMAIN dirs |-> Lower(dirs[i])]
SameIgnoringCase(f, g) ==
  LowerAll(f.dirs) = LowerAll(g.dirs) /\ Lower(f.filename) = Lower(g.filename)
FileSets(sep) ==
  {S \in SUBSET AllFiles :
     /\ Cardinality(S) <= MaxFiles
     /\ sep = Windows => \A f \in S, g \in S : SameIgnoringCase(f, g) => f = g}

\* main(), lines 598-599: the source path gets a trailing separator.
NormalizedSourcePath(sep, path) ==
  IF ~EndsWith(path, <<sep>>) THEN path \o <<sep>> ELSE path

\* os.walk(basepath): the dirpath it reports for the directory dirs.
RECURSIVE WalkDirPath(_, _, _)
WalkDirPath(sep, basepath, dirs) ==
  IF dirs = <<>> THEN basepath
  ELSE Join(sep, WalkDirPath(sep, basepath, SubSeq(dirs, 1, Len(dirs) - 1)),
            dirs[Len(dirs)])

IsPrefix(d, e) == Len(d) <= Len(e) /\ SubSeq(e, 1, Len(d)) = d
Orderings(S) ==
  {w \in [1..Cardinality(S) -> S] : \A i, j \in DOMAIN w : w[i] = w[j] => i = j}
\* os.walk, top down: the files of a directory come before those below it, and
\* the files under any one directory come in one block; the order of the
\* entries within a directory is the file system's.
Walks(S) ==
  {w \in Orderings(S) :
     \A i, j \in DOMAIN w :
       i < j =>
         /\ ~(IsPrefix(w[j].dirs, w[i].dirs) /\ w[j].dirs # w[i].dirs)
         /\ \A n \in 0..Len(w[i].dirs), k \in i..j :
              LET d == SubSeq(w[i].dirs, 1, n)
              IN IsPrefix(d, w[j].dirs) => IsPrefix(d, w[k].dirs)}

\* --------------------------------------------------------------- ModelPath
\* ModelPath.__init__, lines 255-266; file: the file it was made for (history,
\* not a field of the class).
ModelPath(sep, filename, path, sourcepath, file) ==
  LET sourcepathused == Strip(sourcepath, "\\")
      subpath == Strip(Slice(path, Len(sourcepathused), Find(path, filename)), "\\")
  IN [filename |-> filename,
      name |-> Slice(filename, 0, RFind(filename, ".")),
      extension |-> Slice(filename, RFind(filename, ".") + 1, Len(filename)),
      filepath |-> path,
      subpath |-> subpath,
      sourcepathused |-> sourcepathused,
      pathminusfilename |-> Join(sep, sourcepathused, subpath),
      file |-> file]

\* ModelPath.__lt__, lines 276-281.
FolderCount(sep, mp) == Len(Split(mp.pathminusfilename, sep))
ModelPathLt(sep, self, other) ==
  IF FolderCount(sep, self) = FolderCount(sep, other)
  THEN StrLt(Lower(self.filename), Lower(other.filename))
  ELSE FolderCount(sep, self) < FolderCount(sep, other)

\* VALID_IMPORT_EXTENSIONS, lines 36-41.
VALID_IMPORT_EXTENSIONS ==
  {<<".", "g", "l", "b">>, <<".", "g", "l", "t", "f">>,
   <<".", "o", "b", "j">>, <<".", "f", "b", "x">>}

\* getAllModelPaths, line 357: file.endswith(extensions_tuple), an exact
\* comparison of the characters.
EndsWithAny(file, extensions) == \E e \in extensions : EndsWith(file, e)

\* getAllModelPaths, lines 352-365, over the files in the order of the walk.
getAllModelPaths(sep, basepath, extensions, w) ==
  LET kept == SelectSeq(w, LAMBDA f : EndsWithAny(f.filename, extensions))
  IN [i \in DOMAIN kept |->
        ModelPath(sep, kept[i].filename,
                  Join3(sep, basepath, WalkDirPath(sep, basepath, kept[i].dirs),
                        kept[i].filename),
                  basepath, kept[i])]

\* sorted(): a stable sort that compares with __lt__ only; each element goes
\* before the first one it is less than.
RECURSIVE InsertSorted(_, _, _)
InsertSorted(sep, x, s) ==
  IF s = <<>> THEN <<x>>
  ELSE IF ModelPathLt(sep, x, Head(s)) THEN <<x>> \o s
  ELSE <<Head(s)>> \o InsertSorted(sep, x, Tail(s))
RECURSIVE Sorted(_, _)
Sorted(sep, s) ==
  IF s = <<>> THEN <<>>
  ELSE InsertSorted(sep, s[Len(s)], Sorted(sep, SubSeq(s, 1, Len(s) - 1)))

\* ModelPath.suffixName, lines 298-303.
SuffixNameSwapped(suffix, name, exportNameMode) ==
  CASE exportNameMode = "prepend" -> name \o <<"_">> \o suffix
    [] exportNameMode = "append" -> suffix \o <<"_">> \o name
suffixName(suffix, name, exportNameMode) ==
  CASE exportNameMode = "prepend" -> suffix \o <<"_">> \o name
    [] exportNameMode = "append" -> name \o <<"_">> \o suffix

\* ModelPath.imageExportPath, lines 283-296.
imageExportPath(sep, self, dir, exportpath, exportpathmode, exportNameMode) ==
  LET subpathtrimmed == IF EndsWith(self.subpath, <<sep>>)
                        THEN Slice(self.subpath, 0, -1) ELSE self.subpath
      parts == Split(subpathtrimmed, sep)
  IN CASE exportpathmode = "keeppath" ->
            Join3(sep, exportpath, subpathtrimmed,
                  suffixName(dir, self.name, exportNameMode))
       [] exportpathmode = "flatten" ->
            Join(sep, exportpath, suffixName(dir, self.name, exportNameMode))
       [] exportpathmode = "flatten_pathname" ->
            Join(sep, exportpath,
                 suffixName(dir, Replace(subpathtrimmed, sep, "_") \o <<"_">> \o self.name,
                            exportNameMode))
       [] exportpathmode = "flatten_foldername" ->
            Join(sep, exportpath, suffixName(dir, parts[Len(parts)], exportNameMode))

ExportPathModes == {"flatten", "keeppath", "flatten_foldername", "flatten_pathname"}
ExportNameModes == {"prepend", "append"}
\* The directions as the strings handed to imageExportPath.
DirectionStrings == {<<"X">>, <<"-", "X">>, <<"Z">>}

\* main(), lines 598-629: the source path is normalized, the model files are
\* collected in the order of the walk and sorted.
DiscoverModelPaths ==
  /\ pc = "discover"
  /\ LET basepath == NormalizedSourcePath(os_sep, sourcePath)
     IN /\ sourcePath' = basepath
        /\ \E w \in Walks(files) :
             /\ walk' = w
             /\ sortedpaths' = Sorted(os_sep, getAllModelPaths(os_sep, basepath, VALID_IMPORT_EXTENSIONS, w))
  /\ pc' = "sorted"
  /\ UNCHANGED <<sceneVars, configVars, old_objs, old_objs_werehidden, camera,
                 discovered, modelpaths, path_i, out_obj, importresults_fails,
                 importresults_successes, local_objects_to_shoot, local_i, messages,
                 shootVars, histVars, renderVars, viewVars,
                 os_sep, files, export_args, export_result, window_args>>

\* prepare_shoot_clean_object, lines 564-569: the export path of a discovered
\* asset for one direction under the export settings.
ImageExportPath ==
  /\ pc = "sorted"
  /\ \E i \in DOMAIN sortedpaths, dir \in DirectionStrings,
        exportpath \in ExportPaths(os_sep),
        exportpathmode \in ExportPathModes, exportNameMode \in ExportNameModes :
       /\ export_args' = [modelpath |-> sortedpaths[i], direction |-> dir,
                          exportpath |-> exportpath,
                          exportpathmode |-> exportpathmode,
                          exportNameMode |-> exportNameMode]
       /\ export_result' = imageExportPath(os_sep, sortedpaths[i], dir, exportpath,
                                           exportpathmode, exportNameMode)
  /\ pc' = "exported"
  /\ UNCHANGED <<sceneVars, configVars, old_objs, old_objs_werehidden, camera,
                 discovered, modelpaths, path_i, out_obj, importresults_fails,
                 importresults_successes, local_objects_to_shoot, local_i, messages,
                 shootVars, histVars, renderVars,
                 viewVars, os_sep, sourcePath, files, walk, sortedpaths, window_args>>

\* main(), lines 636-645: the sorted list is sliced under the window settings;
\* the assets are named by their position in the sorted list.
SliceModelPaths ==
  /\ pc = "sorted"
  /\ Len(sortedpaths) >= 1
  /\ \E overrideStartSearch \in BOOLEAN, startSearch \in 0..MaxFiles,
        limitSearch \in BOOLEAN, maxFiles \in 1..MaxFiles :
       /\ window_args' = [overrideStartSearch |-> overrideStartSearch,
                          startSearch |-> startSearch,
                          limitSearch |-> limitSearch, maxFiles |-> maxFiles]
       /\ modelpaths' = Window(Len(sortedpaths), overrideStartSearch, startSearch,
                               limitSearch, maxFiles)
  /\ pc' = "windowed"
  /\ UNCHANGED <<sceneVars, configVars, old_objs, old_objs_werehidden, camera,
                 discovered, path_i, out_obj, importresults_fails,
                 importresults_successes, local_objects_to_shoot, local_i, messages,
                 shootVars, histVars, renderVars, viewVars,
                 os_sep, sourcePath, files, walk, sortedpaths, export_args,
                 export_result>>

\* A source directory on one platform, before discovery.
InitPaths ==
  /\ scene = PreObjs /\ freed = {}
  /\ hide_render = [o \in ObjIds |-> FALSE]
  /\ objtype = [o \in ObjIds |-> IF o \in PreObjs THEN "MESH" ELSE "NONE"]
  /\ active = None
  /\ culling = [m \in Mats |-> FALSE]
  /\ settings_prepared = TRUE
  /\ importMode = "folder" /\ shootDirections = <<"X">> /\ backCulling = FALSE
  /\ pc = "discover"
  /\ old_objs = <<>> /\ old_objs_werehidden = <<>>
  /\ camera = None /\ discovered = FALSE
  /\ modelpaths = <<>> /\ path_i = 1 /\ out_obj = None
  /\ importresults_fails = <<>> /\ importresults_successes = <<>>
  /\ local_objects_to_shoot = <<>> /\ local_i = 1
  /\ messages = <<>>
  /\ materials = <<>> /\ old_culling = <<>> /\ dir_i = 1
  /\ pre_hide = hide_render /\ pre_culling = culling /\ call_culling = culling
  /\ shot = {} /\ disposed = {} /\ imported = <<>>
  /\ RenderIdle
  /\ ViewIdle
  /\ os_sep \in Platforms
  /\ sourcePath \in SourcePaths(os_sep)
  /\ files \in FileSets(os_sep)
  /\ walk = <<>> /\ sortedpaths = <<>>
  /\ export_args = <<>> /\ export_result = <<>>
  /\ window_args = <<>>

NextPaths == DiscoverModelPaths \/ ImageExportPath \/ SliceModelPaths

SpecPaths == InitPaths /\ [][NextPaths]_vars

\* ================================================================= claims
\* main() has returned, or ended with an exception of its own.
RunEnded == pc \in {"done", "raised"}
Shown(m) == \E i \in DOMAIN messages : messages[i] = m
CountShown(m) == Cardinality({i \in DOMAIN messages : messages[i] = m})
AssetsOf(results) == {results[i][1] : i \in DOMAIN results}
EntriesOf(results, a) == {i \in DOMAIN results : results[i][1] = a}

\* The path at position i of the window is accounted for as its import went.
Accounted(i) ==
  LET a == modelpaths[i]
  IN IF imported[i] = None
     THEN /\ Cardinality(EntriesOf(importresults_fails, a)) = 1
          /\ \A j \in EntriesOf(importresults_fails, a) :
               importresults_fails[j][2] # ""
          /\ a \notin AssetsOf(importresults_successes)
          /\ \A o \in ObjIds : <<a, o>> \notin shot \cup disposed
     ELSE /\ Cardinality(EntriesOf(importresults_successes, a)) = 1
          /\ a \notin AssetsOf(importresults_fails)
          /\ <<a, imported[i]>> \in shot
          /\ <<a, imported[i]>> \in disposed

\* C1: partial-failure isolation.  In folder mode, whenever the loop is at its
\* head every path before the current one has been imported and is accounted
\* for: a path whose import returned no object is in the failure list only,
\* once, with its reason, and was neither shot nor disposed; a path whose import
\* returned an object is in the success list only and that object was shot and
\* disposed.  A failed import therefore leaves the loop at the next path, and
\* when the report is shown every path of the window is accounted for.
C1_ImportFailureIsolated ==
  /\ (importMode = "folder" /\ pc = "loop") =>
       /\ Len(imported) = Min(path_i - 1, Len(modelpaths))
       /\ path_i <= Len(modelpaths) + 1
       /\ \A i \in 1..Len(imported) : Accounted(i)
  /\ Shown("report") =>
       /\ Len(imported) = Len(modelpaths)
       /\ \A i \in 1..Len(imported) : Accounted(i)

\* C1 witness: a window of two paths, the first import failed, the second
\* succeeded and was shot and disposed, and main() has returned.
C1_Witness ==
  /\ pc = "done" /\ Shown("report")
  /\ Len(modelpaths) = 2 /\ Len(imported) = 2
  /\ imported[1] = None /\ imported[2] # None
  /\ <<modelpaths[2], imported[2]>> \in disposed

\* C2: after a full run (no abort, no exception caught by main's handler) every
\* object that was in the scene before the run and still exists has the
\* hide_render value it had before the run.
C2_VisibilityRestored ==
  (RunEnded /\ ~Shown("error") /\ ~Shown("abort_nomodels") /\ ~Shown("abort_directions")) =>
    \A o \in PreObjs \ freed : hide_render[o] = pre_hide[o]

\* prepare_shoot_clean_object has just returned normally.
JustCleaned == pc = "dispose" \/ (pc = "local" /\ local_i > 1)

\* C3: when prepare_shoot_clean_object returns normally, every material in the
\* object's slots has the use_backface_culling value it had immediately before
\* the call.
C3_CullingRoundTrip ==
  JustCleaned =>
    \A i \in DOMAIN materials :
      materials[i] # None => culling[materials[i]] = call_culling[materials[i]]

\* C4: if an exception was raised while an object was being shot, then when
\* main() ends every surviving object of the file has its pre-run hide_render
\* and every material of the file its pre-run use_backface_culling.
C4_RestoredAfterException ==
  (RunEnded /\ Shown("error")) =>
    /\ \A o \in PreObjs \ freed : hide_render[o] = pre_hide[o]
    /\ \A m \in PreMats : culling[m] = pre_culling[m]

\* C5: when no model file is found, main() ends with no visibility flag changed
\* and with no camera of the run left in the scene.
C5_ZeroAssetsNoMutation ==
  Shown("abort_nomodels") =>
    /\ \A o \in PreObjs : hide_render[o] = pre_hide[o]
    /\ CamId \notin scene

\* C6: with no shoot direction selected, main() reports the configuration error
\* and returns with nothing read or changed: no visibility flag snapshotted or
\* changed, no camera created, no render setting changed, nothing discovered or
\* imported.
C6_EmptyDirectionsUntouched ==
  (Len(shootDirections) = 0 /\ pc # "idle") =>
    /\ pc = "done"
    /\ messages = <<"abort_directions">>
    /\ hide_render = pre_hide
    /\ old_objs = <<>> /\ old_objs_werehidden = <<>>
    /\ camera = None /\ scene = PreObjs
    /\ ~settings_prepared
    /\ ~discovered /\ imported = <<>>

\* C6 witness: main() has returned on the empty direction set, in a scene with
\* a visible and a hidden object.
C6_Witness ==
  /\ pc = "done" /\ Len(shootDirections) = 0
  /\ \E o \in PreObjs : ~hide_render[o]
  /\ \E o \in PreObjs : hide_render[o]

\* C7: a folder-mode run that reached the per-asset loop ends with exactly one
\* aggregated report, in which every path of the window appears exactly once (as
\* a success or as a failure), and with no error surfaced in its place.
C7_AggregatedReport ==
  (RunEnded /\ importMode = "folder" /\ discovered /\ ~Shown("abort_nomodels")) =>
    /\ CountShown("report") = 1
    /\ ~Shown("error")
    /\ \A i \in DOMAIN modelpaths :
         Cardinality(EntriesOf(importresults_fails, modelpaths[i]))
           + Cardinality(EntriesOf(importresults_successes, modelpaths[i])) = 1

\* ------------------------------------------------------- claims on render()
\* n = ceil(w / cap), stated without the model's own division.
IsCeil(n, w, cap) == (n - 1) * cap < w /\ w <= n * cap
CeilOf(w, cap) == CHOOSE n \in 0..w : IsCeil(n, w, cap)

\* The last shot was split into tiles, at a resolution of at least 1 x 1.
SplitShot ==
  /\ calls # <<>>
  /\ calls[1].use_border
  /\ resolution_x >= 1 /\ resolution_y >= 1

\* The call for the tile (row, column) of the last shot.
TileAt(row, column) == calls[row * CeilOf(resolution_y, max_res) + column + 1]

\* C8: in a split under 'evensize' or 'maxsize', the crop windows tile
\* [0,1] x [0,1]: one call per (row, column); on each axis a tile starts where
\* the previous one ends, the first starts at 0, the last ends at 1, each tile
\* has min < max; and no two tiles overlap.
C8_TilingCoverage ==
  (SplitShot /\ imgDivideMode \in {"evensize", "maxsize"}) =>
    LET px == CeilOf(resolution_x, max_res)
        py == CeilOf(resolution_y, max_res)
    IN /\ Len(calls) = px * py
       /\ \A row \in 0..(px - 1), column \in 0..(py - 1) :
            LET t == TileAt(row, column)
            IN /\ RatLt(t.min_x, t.max_x) /\ RatLt(t.min_y, t.max_y)
               /\ RatEq(t.min_x, IF row = 0 THEN Zero ELSE TileAt(row - 1, column).max_x)
               /\ RatEq(t.min_y, IF column = 0 THEN Zero ELSE TileAt(row, column - 1).max_y)
               /\ (row = px - 1) => RatEq(t.max_x, One)
               /\ (column = py - 1) => RatEq(t.max_y, One)
       /\ \A m \in DOMAIN calls, n \in DOMAIN calls :
            m # n =>
              \/ RatLe(calls[m].max_x, calls[n].min_x)
              \/ RatLe(calls[n].max_x, calls[m].min_x)
              \/ RatLe(calls[m].max_y, calls[n].min_y)
              \/ RatLe(calls[n].max_y, calls[m].min_y)

\* C8 witness: a split of 3 x 2 tiles or more under 'maxsize' whose resolution
\* is no multiple of the cap.
C8_Witness ==
  /\ SplitShot /\ imgDivideMode = "maxsize"
  /\ Len(calls) >= 6
  /\ resolution_x % max_res # 0

\* C9: when both resolution components are between 1 and the cap, render()
\* issues exactly one render call, with the border and crop-to-border off and
\* the output path the base path itself, whatever the earlier shots left in the
\* settings; otherwise it issues ceil(w/cap) * ceil(h/cap) calls.
C9_NoSplit ==
  LET w == resolution_x
      h == resolution_y
  IN calls # <<>> \/ w = 0 \/ h = 0 =>
       IF 1 <= w /\ w <= max_res /\ 1 <= h /\ h <= max_res
       THEN /\ Len(calls) = 1
            /\ ~calls[1].use_border /\ ~calls[1].use_crop_to_border
            /\ ~use_border /\ ~use_crop_to_border
            /\ calls[1].filepath = <<calls[1].basepath>>
            /\ filepath = calls[1].filepath
       ELSE Len(calls) = CeilOf(w, max_res) * CeilOf(h, max_res)

\* C9 witness: an unsplit shot taken while the settings still hold the crop
\* window of an earlier split.
C9_Witness ==
  /\ Len(calls) = 1 /\ ~calls[1].use_border
  /\ ~RatEq(border_min_x, Zero)

\* The region a call renders: its crop window, or the full frame with the
\* border off.
RegionOf(call) ==
  IF call.use_border
  THEN [min_x |-> call.min_x, max_x |-> call.max_x,
        min_y |-> call.min_y, max_y |-> call.max_y]
  ELSE [min_x |-> Zero, max_x |-> One, min_y |-> Zero, max_y |-> One]

\* (hi - lo) * res = px, for rationals lo and hi.
SpanIs(lo, hi, res, px) == (hi[1] * lo[2] - lo[1] * hi[2]) * res = px * (hi[2] * lo[2])

\* The size piece k of an axis of res pixels must have under 'maxsize'.
MaxSizePiece(k, res, cap) ==
  IF k < CeilOf(res, cap) - 1 THEN cap ELSE res - cap * (CeilOf(res, cap) - 1)

\* C10: under 'maxsize', along each axis every tile but the last covers exactly
\* cap pixels and the last covers res - cap * (count - 1) pixels, which is
\* between 1 and cap; a resolution equal to the cap gives one piece.
C10_MaxSizeTileSizes ==
  (calls # <<>> /\ imgDivideMode = "maxsize"
     /\ resolution_x >= 1 /\ resolution_y >= 1) =>
    LET px == CeilOf(resolution_x, max_res)
        py == CeilOf(resolution_y, max_res)
    IN /\ Len(calls) = px * py
       /\ (resolution_x = max_res) => px = 1
       /\ (resolution_y = max_res) => py = 1
       /\ \A row \in 0..(px - 1), column \in 0..(py - 1) :
            LET r == RegionOf(TileAt(row, column))
                sx == MaxSizePiece(row, resolution_x, max_res)
                sy == MaxSizePiece(column, resolution_y, max_res)
            IN /\ SpanIs(r.min_x, r.max_x, resolution_x, sx)
               /\ SpanIs(r.min_y, r.max_y, resolution_y, sy)
               /\ 1 <= sx /\ sx <= max_res
               /\ 1 <= sy /\ sy <= max_res

\* C10 witness: a resolution of cap + 1 along x under 'maxsize': two pieces,
\* the second of them 1 pixel wide.
C10_Witness ==
  /\ calls # <<>> /\ imgDivideMode = "maxsize"
  /\ max_res >= 2 /\ resolution_x = max_res + 1 /\ resolution_y >= 1
  /\ CeilOf(resolution_x, max_res) = 2
  /\ LET r == RegionOf(TileAt(1, 0))
     IN SpanIs(r.min_x, r.max_x, resolution_x, 1)

\* (hi - lo) * res <= px, for rationals lo and hi.
SpanAtMost(lo, hi, res, px) == (hi[1] * lo[2] - lo[1] * hi[2]) * res <= px * (hi[2] * lo[2])

\* C11: in a split under 'evensize' every tile has the normalized width
\* 1 / ceil(w / cap) and the normalized height 1 / ceil(h / cap), whether or
\* not the resolution is a multiple of the tile count or of the cap.
C11_EvenSplitEqualFractions ==
  (SplitShot /\ imgDivideMode = "evensize") =>
    LET px == CeilOf(resolution_x, max_res)
        py == CeilOf(resolution_y, max_res)
    IN \A n \in DOMAIN calls :
         /\ SpanIs(calls[n].min_x, calls[n].max_x, px, 1)
         /\ SpanIs(calls[n].min_y, calls[n].max_y, py, 1)

\* C11 witness: an 'evensize' split of a resolution that is a multiple neither
\* of the cap nor of the tile count (5 pixels, cap 2, 3 tiles).
C11_Witness ==
  /\ SplitShot /\ imgDivideMode = "evensize"
  /\ resolution_x % max_res # 0
  /\ resolution_x % CeilOf(resolution_x, max_res) # 0
  /\ CeilOf(resolution_x, max_res) >= 3

\* C12: under 'evensize' and 'maxsize', split or not, the region of every
\* render call (its crop window times the full resolution) is at most the cap
\* wide and at most the cap high.
C12_CapRespected ==
  (imgDivideMode \in {"evensize", "maxsize"}) =>
    \A n \in DOMAIN calls :
      LET r == RegionOf(calls[n])
      IN /\ SpanAtMost(r.min_x, r.max_x, calls[n].resolution_x, max_res)
         /\ SpanAtMost(r.min_y, r.max_y, calls[n].resolution_y, max_res)

\* C12 witness: both kinds of call have happened under a cap the resolution
\* exceeds on one axis only: a tile of a split whose other axis is unsplit.
C12_Witness ==
  /\ SplitShot /\ imgDivideMode = "evensize"
  /\ resolution_x > max_res /\ resolution_y <= max_res
  /\ resolution_x % max_res # 0

\* The characters of a path after its base path, cut at each "_".
RECURSIVE SplitUnderscore(_)
SplitUnderscore(s) ==
  IF s = <<>> THEN <<<<>>>>
  ELSE LET rest == SplitUnderscore(Tail(s))
       IN IF Head(s) = "_" THEN <<<<>>>> \o rest
          ELSE <<<<Head(s)>> \o rest[1]>> \o Tail(rest)

\* The number a sequence of decimal digits writes.
DigitValue(c) == CHOOSE d \in 0..9 : DigitChar[d + 1] = c
RECURSIVE ParseInt(_)
ParseInt(s) ==
  IF s = <<>> THEN 0
  ELSE 10 * ParseInt(SubSeq(s, 1, Len(s) - 1)) + DigitValue(s[Len(s)])

\* C13: in a split render the tile at the loop indices (row, column) is
\* written to basepath + "_" + (row + 1) + "_" + (column + 1): the path starts
\* with the base path and the rest reads back, between its underscores, as the
\* two 1-based indices; no two tiles of the render share a path.
C13_TileNaming ==
  (calls # <<>> /\ calls[1].use_border) =>
    LET py == CeilOf(resolution_y, max_res)
    IN /\ \A n \in DOMAIN calls :
            LET row == (n - 1) \div py
                column == (n - 1) % py
                path == calls[n].filepath
                parts == SplitUnderscore(Tail(path))
            IN /\ Head(path) = calls[n].basepath
               /\ Len(parts) = 3 /\ parts[1] = <<>>
               /\ ParseInt(parts[2]) = row + 1
               /\ ParseInt(parts[3]) = column + 1
       /\ \A m \in DOMAIN calls, n \in DOMAIN calls :
            m # n => calls[m].filepath # calls[n].filepath

\* C13 witness: a split of at least 2 x 2 tiles, its last tile written to the
\* path of the indices (2, 2) or beyond.
C13_Witness ==
  /\ calls # <<>> /\ calls[1].use_border
  /\ CeilOf(resolution_x, max_res) >= 2 /\ CeilOf(resolution_y, max_res) >= 2
  /\ Len(calls) >= 4
  /\ filepath = calls[Len(calls)].filepath

\* ------------------------------------------------- claims on shoottarget()
\* The last shoottarget call set a resolution and went through render().
ShotRendered == shot_result = "rendered"

\* r = ceil(q) for a rational q, stated without the model's own ceiling.
IsCeilOfRat(r, q) == (r - 1) * q[2] < q[1] /\ q[1] <= r * q[2]
\* ceil(size * extent): the resolution of an extent at size pixels per unit.
NaiveResolution(size, extent) ==
  CHOOSE r \in 0..(size * (MaxDim + 1)) :
    IsCeilOfRat(r, <<size * extent[1], extent[2]>>)

LongSide == RatMax(target_bb_viewsize[1], target_bb_viewsize[2])
LongAxis == IF resolution_x >= resolution_y THEN resolution_x ELSE resolution_y
ShortAxis == IF resolution_x >= resolution_y THEN resolution_y ELSE resolution_x

\* C14: in 'samesize' mode, for a view extent whose longer side is positive,
\* the longer axis of the resolution equals the cap, the shorter axis is at
\* most the cap, and render() issues one render call with the border off,
\* whatever the divide mode.
C14_UniformOutputSize ==
  (ShotRendered /\ scaleMode = "samesize" /\ RatLt(Zero, LongSide)) =>
    /\ LongAxis = max_res
    /\ ShortAxis <= max_res
    /\ Len(calls) = 1
    /\ ~calls[1].use_border

\* C15: in 'uniformscale' mode with the divide mode 'reduceres', if a
\* component of ceil(imgSize * extent) exceeds the cap then px_per_unit is
\* cap / max(extent) and the longer axis of the resolution equals the cap;
\* otherwise px_per_unit is imgSize and the resolution is ceil(imgSize * extent).
C15_ReducePixelsPerUnit ==
  (ShotRendered /\ scaleMode = "uniformscale" /\ imgDivideMode = "reduceres") =>
    LET naive_w == NaiveResolution(imgSize, target_bb_viewsize[1])
        naive_h == NaiveResolution(imgSize, target_bb_viewsize[2])
    IN IF naive_w > max_res \/ naive_h > max_res
       THEN /\ RatEq(RatMul(px_per_unit, LongSide), RatOfInt(max_res))
            /\ LongAxis = max_res
       ELSE /\ RatEq(px_per_unit, RatOfInt(imgSize))
            /\ resolution_x = naive_w /\ resolution_y = naive_h

\* C15 witness: a shot whose scale was reduced, the shorter axis of the view
\* not a whole number of pixels at the reduced scale.
C15_Witness ==
  /\ ShotRendered /\ scaleMode = "uniformscale" /\ imgDivideMode = "reduceres"
  /\ RatLt(px_per_unit, RatOfInt(imgSize))
  /\ LongAxis = max_res /\ ShortAxis >= 1
  /\ LET short == IF resolution_x >= resolution_y THEN target_bb_viewsize[2]
                   ELSE target_bb_viewsize[1]
     IN ~RatEq(RatMul(px_per_unit, short), RatOfInt(ShortAxis))

\* C16: in 'uniformscale' mode with the divide mode 'evensize' or 'maxsize',
\* the resolution every render call runs at is ceil(imgSize * extent) on each
\* axis and px_per_unit stays imgSize, however far the cap is exceeded.
C16_SplitModesKeepScale ==
  (ShotRendered /\ scaleMode = "uniformscale"
     /\ imgDivideMode \in {"evensize", "maxsize"}) =>
    LET naive_w == NaiveResolution(imgSize, target_bb_viewsize[1])
        naive_h == NaiveResolution(imgSize, target_bb_viewsize[2])
    IN /\ RatEq(px_per_unit, RatOfInt(imgSize))
       /\ resolution_x = naive_w /\ resolution_y = naive_h
       /\ \A n \in DOMAIN calls :
            calls[n].resolution_x = naive_w /\ calls[n].resolution_y = naive_h

\* C16 witness: a split shot at more than twice the cap on one axis.
C16_Witness ==
  /\ ShotRendered /\ scaleMode = "uniformscale"
  /\ imgDivideMode \in {"evensize", "maxsize"}
  /\ resolution_x > 2 * max_res /\ resolution_y >= 1
  /\ Len(calls) >= 3

\* C17: a shoottarget call either raises (the error is then reported) or
\* sets a resolution of at least 1 on each axis and renders at least one
\* image; a zero view extent never ends in a silent shot without an image.
C17_ResolutionAtLeastOne ==
  (shot_result # "none") =>
    \/ shot_result = "raised"
    \/ /\ resolution_x >= 1 /\ resolution_y >= 1
       /\ calls # <<>>

\* --------------------------------------------------- claims on ModelPath
\* The discovery has been made and sortedpaths holds its sorted assets.
Discovered == pc \in {"sorted", "exported"}
\* The folder depth of an asset: the folders between the source directory and
\* its file.
DepthOf(mp) == Len(mp.file.dirs)
NameKey(mp) == Lower(mp.file.filename)

\* C18: ModelPath's less-than is a total order on the discovered assets
\* (of two distinct assets exactly one is less than the other, and it is
\* transitive) in which the asset of smaller folder depth is the lesser
\* whatever the names, and at equal depth the asset of smaller
\* case-insensitive file name is the lesser.
C18_Ordering ==
  Discovered =>
    /\ \A i, j \in DOMAIN sortedpaths :
         LET a == sortedpaths[i]
             b == sortedpaths[j]
         IN i # j =>
              /\ ModelPathLt(os_sep, a, b) \/ ModelPathLt(os_sep, b, a)
              /\ ~(ModelPathLt(os_sep, a, b) /\ ModelPathLt(os_sep, b, a))
              /\ DepthOf(a) < DepthOf(b) => ModelPathLt(os_sep, a, b)
              /\ (DepthOf(a) = DepthOf(b) /\ StrLt(NameKey(a), NameKey(b)))
                   => ModelPathLt(os_sep, a, b)
    /\ \A i, j, k \in DOMAIN sortedpaths :
         (ModelPathLt(os_sep, sortedpaths[i], sortedpaths[j])
            /\ ModelPathLt(os_sep, sortedpaths[j], sortedpaths[k]))
           => ModelPathLt(os_sep, sortedpaths[i], sortedpaths[k])

\* C19: the sorted list main() works through is the same for every order in
\* which the walk can list the same files.
C19_DeterministicOrder ==
  Discovered =>
    \A w \in Walks(files) :
      Sorted(os_sep, getAllModelPaths(os_sep, sourcePath, VALID_IMPORT_EXTENSIONS, w)) = sortedpaths

\* The parts joined into one string with the character c between them.
RECURSIVE JoinedWith(_, _)
JoinedWith(parts, c) ==
  IF parts = <<>> THEN <<>>
  ELSE IF Len(parts) = 1 THEN parts[1]
  ELSE parts[1] \o <<c>> \o JoinedWith(Tail(parts), c)

\* The file name without its extension ".obj".
BaseName(file) == SubSeq(file.filename, 1, Len(file.filename) - 4)
\* suffixed(n): the direction before or after the name.
Suffixed(n, dir, placement) ==
  IF placement = "prepend" THEN dir \o <<"_">> \o n ELSE n \o <<"_">> \o dir
\* The export directory without a trailing separator.
ExportRoot(exportpath) ==
  IF exportpath[Len(exportpath)] = os_sep
  THEN SubSeq(exportpath, 1, Len(exportpath) - 1) ELSE exportpath

\* The destination the four layouts prescribe for a file of the source
\* directory.
Destination(file, dir, exportpath, layout, placement) ==
  LET base == BaseName(file)
      named == CASE layout = "flatten" -> <<Suffixed(base, dir, placement)>>
                 [] layout = "keeppath" -> file.dirs \o <<Suffixed(base, dir, placement)>>
                 [] layout = "flatten_pathname" ->
                      <<Suffixed(JoinedWith(file.dirs, "_") \o <<"_">> \o base,
                                 dir, placement)>>
                 [] layout = "flatten_foldername" ->
                      <<Suffixed(IF file.dirs = <<>> THEN <<>>
                                 ELSE file.dirs[Len(file.dirs)], dir, placement)>>
  IN JoinedWith(<<ExportRoot(exportpath)>> \o named, os_sep)

ShootAxis(dir) ==
  CASE dir \in {"X", "-X"} -> 1
    [] dir \in {"Y", "-Y"} -> 2
    [] dir \in {"Z", "-Z"} -> 3
OrthogonalAxes(dir) ==
  LET rest == (1..3) \ {ShootAxis(dir)}
      lo == CHOOSE a \in rest : \A b \in rest : a <= b
      hi == CHOOSE a \in rest : \A b \in rest : b <= a
  IN <<lo, hi>>
Opposite(dir) ==
  CASE dir = "X" -> "-X" [] dir = "-X" -> "X"
    [] dir = "Y" -> "-Y" [] dir = "-Y" -> "Y"
    [] dir = "Z" -> "-Z" [] dir = "-Z" -> "Z"
\* a - b for rationals.
RatSub(a, b) == <<a[1] * b[2] - b[1] * a[2], a[2] * b[2]>>

\* C22: in each of the six directions the view size shoottarget computes is
\* the pair of bounding-box dimensions orthogonal to the shoot axis, each
\* exceeding its dimension by the padding exactly, and the opposite direction
\* gives the same extent.
C22_ViewExtent ==
  shot_result # "none" =>
    LET ax == OrthogonalAxes(direction)
    IN /\ RatEq(RatSub(target_bb_viewsize[1], dimensions[ax[1]]), imgPadding)
       /\ RatEq(RatSub(target_bb_viewsize[2], dimensions[ax[2]]), imgPadding)
       /\ ViewSize(dimensions, Opposite(direction), imgPadding) = target_bb_viewsize

\* A shot along -Y of a box with three different dimensions, with padding:
\* the extent is (x, z), not (x, y) or (y, z).
C22_Witness ==
  /\ shot_result # "none"
  /\ direction = "-Y"
  /\ RatLt(Zero, imgPadding)
  /\ dimensions = <<RatOfInt(1), RatOfInt(2), RatOfInt(0)>>
  /\ target_bb_viewsize = <<RatAdd(RatOfInt(1), imgPadding), RatAdd(RatOfInt(0), imgPadding)>>

\* ------------------------------------------------------- cap resolution
\* C30: whichever value 'Max image dimension' has, a shot of a target with a
\* positive extent reaches the render step with a positive cap, and under
\* 'other' the cap is the custom value, between 256 and 16384.
C30_CapAlwaysResolved ==
  (shot_result # "none" /\ RatLt(Zero, LongSide)) =>
    /\ shot_result = "rendered"
    /\ max_res >= 1
    /\ (maxImgSize = "other" => max_res \in 256..16384)

\* ------------------------------------------------------ discovery filter
\* The extension of a file name: from its last dot on (empty without a dot).
ExtensionOf(filename) ==
  IF \E i \in DOMAIN filename : filename[i] = "."
  THEN LET last == CHOOSE i \in DOMAIN filename :
                     filename[i] = "." /\ \A j \in DOMAIN filename : filename[j] = "." => j <= i
       IN SubSeq(filename, last, Len(filename))
  ELSE <<>>
IsListed(f) == \E i \in DOMAIN sortedpaths : sortedpaths[i].file = f

\* C21: a file under the source directory has an entry among the discovered
\* assets if and only if its extension, compared without regard to case, is
\* one of the allowed extensions.
C21_DiscoveryFilter ==
  Discovered =>
    \A f \in files :
      IsListed(f) <=> Lower(ExtensionOf(f.filename)) \in VALID_IMPORT_EXTENSIONS

\* ----------------------------------------------------- processing window
\* C29: the assets main() processes are a contiguous slice of the sorted
\* list, in sorted order, that starts at the start index when 'Start after
\* first model' is on and at 0 otherwise, and holds at most 'Max files'
\* assets when 'Limit maximum models' is on and the whole rest otherwise.
C29_ProcessingWindow ==
  pc = "windowed" =>
    LET n == Len(sortedpaths)
        first == IF window_args.overrideStartSearch
                 THEN Min(window_args.startSearch, n) ELSE 0
        len == IF window_args.limitSearch
               THEN Min(window_args.maxFiles, n - first) ELSE n - first
    IN modelpaths = [k \in 1..len |-> first + k]

\* ---------------------------------------------------- merged import root
\* C24: the object an import hands to main() is one of the objects that import
\* created (the merged root when it created several), never an object of the
\* file, and an import that hands over no object is never recorded with the
\* status 'succeeded'.
C24_MergedImportRoot ==
  /\ \A i \in DOMAIN imported :
       imported[i] # None => imported[i] \in ImportedIds(modelpaths[i], MaxImported)
  /\ \A i \in DOMAIN importresults_fails : importresults_fails[i][2] # "succeeded"

\* ------------------------------------------------- visibility at a render
\* shoottarget is about to be called for the next direction of out_obj.
AtRenderCall == pc = "shoot" /\ dir_i <= Len(shootDirections)

\* C25: at every render call, in each import mode, the object being shot is
\* visible to the render and every other mesh object in the scene is hidden
\* from it.
C25_OnlyCurrentVisible ==
  AtRenderCall =>
    /\ ~hide_render[out_obj]
    /\ \A o \in scene \ {out_obj} : objtype[o] = "MESH" => hide_render[o]

\* -------------------------------------------------- render-failure policy
\* main()'s handler has caught an exception raised while the mesh out_obj, the
\* asset at position path_i of the window, was being shot: such an exception
\* comes from shoottarget (the backup loop raises for objects without mesh
\* data only).
RenderFailureCaught ==
  /\ importMode = "folder" /\ Shown("error")
  /\ out_obj # None /\ objtype[out_obj] = "MESH"

\* C23: when a render call raised while asset i was being shot, the run ends
\* with every asset after i in the window imported and, where its import gave
\* an object, shot and disposed.
C23_RenderFailurePolicy ==
  (RunEnded /\ RenderFailureCaught) =>
    \A i \in (path_i + 1)..Len(modelpaths) :
      /\ i <= Len(imported)
      /\ imported[i] # None =>
           /\ <<modelpaths[i], imported[i]>> \in shot
           /\ <<modelpaths[i], imported[i]>> \in disposed

\* ------------------------------------------------------ sequential assets
\* C26: when the import of an asset begins, every asset imported before it
\* has had all its directions rendered, its culling flags restored and its
\* object disposed, and no shot is in progress; an asset is disposed only
\* after its culling flags were restored; and in the current-file modes an
\* object is taken up only after the one before it was rendered and restored.
C26_StrictlySequential ==
  [][/\ Len(imported') > Len(imported) =>
          /\ materials = <<>> /\ old_culling = <<>> /\ dir_i = 1
          /\ \A i \in DOMAIN imported :
               imported[i] # None =>
                 /\ <<modelpaths[i], imported[i]>> \in shot
                 /\ <<modelpaths[i], imported[i]>> \in disposed
     /\ \A x \in disposed' \ disposed : x \in shot
     /\ (pc = "local" /\ pc' = "prepare" /\ local_i > 1) =>
          <<0, local_objects_to_shoot[local_i - 1]>> \in shot]_vars

\* A window of two assets, both imported, shot and disposed, one after the
\* other, under two directions.
C26_Witness ==
  /\ pc = "done" /\ Shown("report")
  /\ Len(shootDirections) = 2
  /\ Len(imported) = 2
  /\ imported[1] # None /\ imported[2] # None
  /\ <<modelpaths[1], imported[1]>> \in disposed
  /\ <<modelpaths[2], imported[2]>> \in disposed

\* --------------------------------------------------------- camera lifecycle
\* C27: a run that passed the direction check has created the one camera of
\* the run, and whenever main() has returned (after the report, after the
\* zero-asset abort or after a caught exception) that camera is deleted.
C27_CameraLifecycle ==
  /\ (pc # "idle" /\ ~Shown("abort_directions")) => camera = CamId
  /\ (pc = "done" /\ ~Shown("abort_directions")) =>
       CamId \notin scene /\ CamId \in freed

\* -------------------------------------------------------- scene object set
\* C28: when main() has returned from a run that found assets to process or
\* worked on the objects of the file, the scene holds exactly the objects it
\* held before the run, and none of them was deleted.
C28_SceneObjectsPreserved ==
  (pc = "done" /\ ~Shown("abort_nomodels")) =>
    /\ scene = PreObjs
    /\ freed \cap PreObjs = {}

====
